---- MODULE Spec2Model ----
(***************************************************************************)
(* Model of olazyllama: a gocui terminal dashboard (src/main.go) over the  *)
(* Ollama HTTP client (src/internal/ollama/client.go).                     *)
(*                                                                         *)
(* Threads: the main goroutine (main, then gocui's MainLoop, which runs    *)
(* key handlers, queued update callbacks and the layout manager) and one   *)
(* background goroutine per refreshAll call.  gocui's Gui.Update hands a   *)
(* callback to the main loop through a channel fed by a fresh goroutine,   *)
(* so pending callbacks are delivered in no particular order.              *)
(***************************************************************************)
EXTENDS Integers, Sequences, FiniteSets, TLC

\* ------------------------------------------------------------------ bounds
\* Total number of refreshAll calls (the startup one included).
MaxRefresh == 2

\* ------------------------------------------------------- program constants
\* Capacity of the rolling status buffer (logf).
LogCap == 5
\* Seconds of the context.WithTimeout shared by both fetches of a refresh.
TimeoutSeconds == 5
\* statusH of layout: rows of the status strip.
statusH == 2
\* Column width of the name in an installed line ("%-40s").
NameWidth == 40
\* http.StatusOK
StatusOK == 200

baseURL == "http://localhost:11434"

\* ------------------------------------------------------------ data values
\* ollama.Model (Digest is never read by the program and is left out).
Model(n, s) == [Name |-> n, Size |-> s]

\* Model lists a backend answers with.  A 200 body without a "models" key
\* decodes to the nil slice, modelled by the empty sequence.
Snapshots == { <<>>, << Model("llama2:7b", 0), Model("phi3:mini", 1288490189) >> }

NoErr == [kind |-> "nil", text |-> ""]
IsErr(e) == e.kind # "nil"

\* The non-empty list of Snapshots.
SomeModels == CHOOSE l \in Snapshots : l # <<>>

\* A backend that never answers the request.
Silent == [class |-> "silent", code |-> 0, status |-> "", models |-> <<>>]

\* What the HTTP round trip of one request can meet.
\*   silent  : no answer ever arrives
\*   refused : the connection cannot be established
\*   status  : a response with a status code other than 200 (its body
\*             would decode to the list in models)
\*   garbage : a 200 response whose body is not valid JSON
\*   models  : a 200 response whose body decodes ({} gives models = <<>>)
Responses ==
    { Silent }
    \cup { [class |-> "refused", code |-> 0, status |-> "", models |-> <<>>] }
    \cup { [class |-> "status", code |-> 500,
            status |-> "500 Internal Server Error", models |-> SomeModels] }
    \cup { [class |-> "status", code |-> 404,
            status |-> "404 Not Found", models |-> <<>>] }
    \cup { [class |-> "garbage", code |-> StatusOK, status |-> "200 OK",
            models |-> <<>>] }
    \cup { [class |-> "models", code |-> StatusOK, status |-> "200 OK",
            models |-> l] : l \in Snapshots }

\* Returns for a request that is not bound to the context.
ReturnsWithoutContext(expired, resp) == resp.class # "silent"

\* c.HTTP.Do returns: an answer or a connection error has arrived, or the
\* context of the request is done.
Returns(expired, resp) == expired \/ resp.class # "silent"

\* ListModels without the check of res.StatusCode.
ListModelsAnyStatus(endpoint, path, expired, resp) ==
    IF expired
    THEN [models |-> <<>>,
          err |-> [kind |-> "TransportError",
                   text |-> "Get \"" \o baseURL \o path
                            \o "\": context deadline exceeded"]]
    ELSE IF resp.class = "refused"
    THEN [models |-> <<>>,
          err |-> [kind |-> "TransportError",
                   text |-> "Get \"" \o baseURL \o path
                            \o "\": connection refused"]]
    ELSE IF resp.class = "garbage"
    THEN [models |-> <<>>,
          err |-> [kind |-> "DecodeError",
                   text |-> "invalid character 'x' looking for beginning of value"]]
    ELSE [models |-> resp.models, err |-> NoErr]

\* The outcome of Client.HTTP.Do plus decoding for one endpoint.
\* expired: the context deadline has passed; the request is aborted.
ListModels(endpoint, path, expired, resp) ==
    IF expired
    THEN [models |-> <<>>,
          err |-> [kind |-> "TransportError",
                   text |-> "Get \"" \o baseURL \o path
                            \o "\": context deadline exceeded"]]
    ELSE IF resp.class = "refused"
    THEN [models |-> <<>>,
          err |-> [kind |-> "TransportError",
                   text |-> "Get \"" \o baseURL \o path
                            \o "\": connection refused"]]
    ELSE IF resp.code # StatusOK
    THEN [models |-> <<>>,
          err |-> [kind |-> "BackendError",
                   text |-> endpoint \o ": " \o resp.status]]
    ELSE IF resp.class = "garbage"
    THEN [models |-> <<>>,
          err |-> [kind |-> "DecodeError",
                   text |-> "invalid character 'x' looking for beginning of value"]]
    ELSE [models |-> resp.models, err |-> NoErr]

ListLocalModels(expired, resp) == ListModels("tags", "/api/tags", expired, resp)

ListRunning(expired, resp) == ListModels("ps", "/api/ps", expired, resp)

\* strings.Join(lines, " | ")
RECURSIVE Join(_)
Join(lines) ==
    IF lines = <<>> THEN ""
    ELSE IF Len(lines) = 1 THEN lines[1]
    ELSE lines[1] \o " | " \o Join(Tail(lines))

\* The last n elements of s (all of s when it is shorter).
LastN(s, n) ==
    IF Len(s) <= n THEN s ELSE SubSeq(s, Len(s) - n + 1, Len(s))

\* Appended with the slice taken from the wrong end (l[:5]).
AppendedKeepsOldest(lines, line) ==
    LET l == Append(lines, line)
    IN  IF Len(l) > LogCap THEN SubSeq(l, 1, LogCap) ELSE l

\* The buffer logf leaves behind: append, then keep the last LogCap lines.
Appended(lines, line) ==
    LET l == Append(lines, line)
    IN  IF Len(l) > LogCap THEN SubSeq(l, Len(l) - LogCap + 1, Len(l)) ELSE l

\* --------------------------------------------------------------- state
VARIABLES
    pc,           \* position of the main goroutine
    gui,          \* a.gui # nil
    installed,    \* a.installed
    running,      \* a.running
    statusLines,  \* a.statusLines
    updates,      \* callbacks handed to Gui.Update and not yet run
    tasks,        \* the background goroutine of each refreshAll call
    vInstalled,   \* buffer of the "installed" view
    vRunning,     \* buffer of the "running" view
    vStatus,      \* buffer of the "status" view
    history       \* every line ever passed to logf, in order (ghost)

vars == << pc, gui, installed, running, statusLines, updates, tasks,
           vInstalled, vRunning, vStatus, history >>

\* A view that has not been created yet (g.View returns an error).
NoView == << "<no view>" >>

\* NewTask for a goroutine that issues both requests at once.
NewTaskBothSent ==
    [tags |-> "sent", ps |-> "sent", apply |-> "none",
     installed |-> <<>>, err1 |-> NoErr,
     running |-> <<>>, err2 |-> NoErr,
     elapsed |-> 0, sent |-> 2]

\* The goroutine of one refreshAll call.
\*   tags, ps : "none" (not issued), "sent" (in flight), "done" (returned)
\*   apply    : "none", "queued" (handed to Gui.Update), "done" (has run)
\*   elapsed  : seconds since context.WithTimeout, while a call is in flight
\*   sent     : HTTP requests issued so far (ghost)
NewTask == [tags |-> "sent", ps |-> "none", apply |-> "none",
            installed |-> <<>>, err1 |-> NoErr,
            running |-> <<>>, err2 |-> NoErr,
            elapsed |-> 0, sent |-> 1]

Tasks == 1 .. Len(tasks)

Init ==
    /\ pc = "init"
    /\ gui = FALSE
    /\ installed = <<>>
    /\ running = <<>>
    /\ statusLines = <<>>
    /\ updates = {}
    /\ tasks = <<>>
    /\ vInstalled = NoView
    /\ vRunning = NoView
    /\ vStatus = NoView
    /\ history = <<>>

\* ------------------------------------------------------------ rendering
\* len(name) for the model names of Snapshots.
NameLen(name) ==
    CASE name = "llama2:7b" -> 9
      [] name = "phi3:mini" -> 9
      [] OTHER -> 0

RECURSIVE Spaces(_)
Spaces(k) == IF k <= 0 THEN "" ELSE " " \o Spaces(k - 1)

\* fmt.Sprintf("%-40s", name)
PadName(name) == name \o Spaces(NameWidth - NameLen(name))

\* Two decimal digits.
TwoDigits(h) == IF h < 10 THEN "0" \o ToString(h) ELSE ToString(h)

\* fmt.Sprintf("%.2f", float64(n)/float64(unit)) for a unit that is a power
\* of two >= 1024: the quotient is exact in float64 and is rounded to two
\* decimals, ties to even.
Fixed2(n, unit) ==
    LET q    == n \div unit
        r    == n % unit
        k    == unit \div 1024
        rh   == r \div k
        rl   == r % k
        x    == (rl * 100) \div k
        xrem == (rl * 100) % k
        num  == rh * 100 + x
        h0   == num \div 1024
        frac == num % 1024
        up   == \/ frac > 512
                \/ (frac = 512 /\ xrem > 0)
                \/ (frac = 512 /\ xrem = 0 /\ h0 % 2 = 1)
        h    == IF up THEN h0 + 1 ELSE h0
    IN  IF h = 100
        THEN ToString(q + 1) \o ".00"
        ELSE ToString(q) \o "." \o TwoDigits(h)

kib == 1024
mib == 1048576
gib == 1073741824

\* HumanSize with the thresholds compared by > instead of >=.
HumanSizeAbove(n) ==
    IF n > gib THEN Fixed2(n, gib) \o " GiB"
    ELSE IF n > mib THEN Fixed2(n, mib) \o " MiB"
    ELSE IF n > kib THEN Fixed2(n, kib) \o " KiB"
    ELSE IF n > 0 THEN ToString(n) \o " B"
    ELSE "-"

\* ollama.HumanSize
HumanSize(n) ==
    IF n >= gib THEN Fixed2(n, gib) \o " GiB"
    ELSE IF n >= mib THEN Fixed2(n, mib) \o " MiB"
    ELSE IF n >= kib THEN Fixed2(n, kib) \o " KiB"
    ELSE IF n > 0 THEN ToString(n) \o " B"
    ELSE "-"

\* InstalledLine with the size column written for every model.
InstalledLineAlwaysSize(m) ==
    PadName(m.Name) \o "  " \o HumanSize(m.Size)

\* One line of the installed pane.
InstalledLine(m) ==
    IF m.Size > 0
    THEN PadName(m.Name) \o "  " \o HumanSize(m.Size)
    ELSE m.Name

\* The buffer the drawInstalled callback writes for the list l.
InstalledLines(l) ==
    IF Len(l) = 0 THEN << "(no models installed)" >>
    ELSE [i \in 1 .. Len(l) |-> InstalledLine(l[i])]

\* The buffer the drawRunning callback writes for the list l.
RunningLines(l) ==
    IF Len(l) = 0 THEN << "(nothing running)" >>
    ELSE [i \in 1 .. Len(l) |-> l[i].Name]

\* ------------------------------------------------------------ operations
\* safeUpdate: hand the callback cb to Gui.Update unless a.gui is nil.
safeUpdate(upd, cb) == IF ~gui THEN upd ELSE upd \cup {cb}

\* logf on the controller state st = [lines, hist, upd].
logf(st, line) ==
    [lines |-> Appended(st.lines, line),
     hist  |-> Append(st.hist, line),
     upd   |-> safeUpdate(st.upd, "status")]

CtlState == [lines |-> statusLines, hist |-> history, upd |-> updates]

\* refreshAll joining a refresh that is already under way: it logs but
\* starts no goroutine while a request of an earlier refresh is unanswered.
refreshAllCoalesced ==
    /\ Len(tasks) < MaxRefresh
    /\ LET st == logf(CtlState, "Refreshing...")
       IN  /\ statusLines' = st.lines
           /\ history' = st.hist
           /\ updates' = st.upd
    /\ tasks' = IF \E t \in Tasks : tasks[t].apply = "none"
                THEN tasks ELSE Append(tasks, NewTask)

\* refreshAll: log, then start the background goroutine, whose first
\* statement issues the /api/tags request.
refreshAll ==
    /\ Len(tasks) < MaxRefresh
    /\ LET st == logf(CtlState, "Refreshing...")
       IN  /\ statusLines' = st.lines
           /\ history' = st.hist
           /\ updates' = st.upd
    /\ tasks' = Append(tasks, NewTask)

\* main: gocui.NewGui, app.gui = g.
NewGui(ok) ==
    /\ pc = "init"
    /\ IF ok THEN pc' = "bind" /\ gui' = TRUE
             ELSE pc' = "fatalGui" /\ gui' = gui
    /\ UNCHANGED << installed, running, statusLines, updates, tasks,
                    vInstalled, vRunning, vStatus, history >>

\* main: SetManagerFunc and bindKeys.
bindKeys(ok) ==
    /\ pc = "bind"
    /\ pc' = IF ok THEN "start" ELSE "fatalKeys"
    /\ UNCHANGED << gui, installed, running, statusLines, updates, tasks,
                    vInstalled, vRunning, vStatus, history >>

\* main: app.refreshAll() before the main loop is entered.
StartupRefresh ==
    /\ pc = "start"
    /\ refreshAll
    /\ pc' = "enter"
    /\ UNCHANGED << gui, installed, running, vInstalled, vRunning, vStatus >>

\* ------------------------------------------------- background goroutine
\* ctx.Done(): the deadline of the refresh's context has passed.
Expired(t) == t \in Tasks /\ tasks[t].elapsed >= TimeoutSeconds

\* One second passes while a request of refresh t is in flight.
Tick(t) ==
    /\ t \in Tasks
    /\ tasks[t].tags = "sent" \/ tasks[t].ps = "sent"
    /\ ~Expired(t)
    /\ tasks' = [tasks EXCEPT ![t].elapsed = @ + 1]
    /\ UNCHANGED << pc, gui, installed, running, statusLines, updates,
                    vInstalled, vRunning, vStatus, history >>

\* FetchTags with a.installed assigned as soon as the first call returns
\* a list, before ListRunning has been called.
FetchTagsAssignsAtOnce(t, resp) ==
    /\ t \in Tasks
    /\ tasks[t].tags = "sent"
    /\ Returns(Expired(t), resp)
    /\ LET res == ListLocalModels(Expired(t), resp)
       IN  /\ tasks' = [tasks EXCEPT ![t].tags = "done",
                                     ![t].installed = res.models,
                                     ![t].err1 = res.err,
                                     ![t].ps = "sent",
                                     ![t].sent = @ + 1]
           /\ installed' = IF IsErr(res.err) THEN installed ELSE res.models
    /\ UNCHANGED << pc, gui, running, statusLines, updates,
                    vInstalled, vRunning, vStatus, history >>

\* installed, err1 := a.client.ListLocalModels(ctx) returns, with the
\* backend's answer or because the deadline passed; the goroutine goes on
\* to issue the /api/ps request.
FetchTags(t, resp) ==
    /\ t \in Tasks
    /\ tasks[t].tags = "sent"
    /\ Returns(Expired(t), resp)
    /\ LET res == ListLocalModels(Expired(t), resp)
       IN  tasks' = [tasks EXCEPT ![t].tags = "done",
                                  ![t].installed = res.models,
                                  ![t].err1 = res.err,
                                  ![t].ps = "sent",
                                  ![t].sent = @ + 1]
    /\ UNCHANGED << pc, gui, installed, running, statusLines, updates,
                    vInstalled, vRunning, vStatus, history >>

\* FetchPs with the body of the apply callback run by the goroutine itself
\* instead of being handed to a.safeUpdate.
FetchPsAppliesDirectly(t, resp) ==
    /\ t \in Tasks
    /\ tasks[t].ps = "sent"
    /\ Returns(Expired(t), resp)
    /\ LET res == ListRunning(Expired(t), resp)
           r   == [tasks[t] EXCEPT !.running = res.models, !.err2 = res.err]
           st0 == CtlState
           st1 == IF IsErr(r.err1)
                  THEN logf(st0, "Installed: " \o r.err1.text) ELSE st0
           st2 == IF IsErr(r.err2)
                  THEN logf(st1, "Running: " \o r.err2.text) ELSE st1
           st3 == IF ~IsErr(r.err1) /\ ~IsErr(r.err2)
                  THEN logf(st2, "Refreshed") ELSE st2
       IN  /\ tasks' = [tasks EXCEPT ![t] =
                          [r EXCEPT !.ps = "done", !.apply = "done",
                                    !.installed = <<>>, !.err1 = NoErr,
                                    !.running = <<>>, !.err2 = NoErr,
                                    !.elapsed = 0]]
           /\ installed' = IF IsErr(r.err1) THEN installed ELSE r.installed
           /\ running' = IF IsErr(r.err2) THEN running ELSE r.running
           /\ statusLines' = st3.lines
           /\ history' = st3.hist
           /\ updates' = safeUpdate(safeUpdate(st3.upd, "drawInstalled"),
                                    "drawRunning")
    /\ UNCHANGED << pc, gui, vInstalled, vRunning, vStatus >>

\* running, err2 := a.client.ListRunning(ctx) returns; the goroutine hands
\* the apply callback to a.safeUpdate and ends (the deferred cancel
\* releases the context).
FetchPs(t, resp) ==
    /\ t \in Tasks
    /\ tasks[t].ps = "sent"
    /\ Returns(Expired(t), resp)
    /\ LET res == ListRunning(Expired(t), resp)
       IN  tasks' = [tasks EXCEPT ![t].ps = "done",
                                  ![t].running = res.models,
                                  ![t].err2 = res.err,
                                  ![t].apply = IF gui THEN "queued" ELSE "done",
                                  ![t].elapsed = 0]
    /\ UNCHANGED << pc, gui, installed, running, statusLines, updates,
                    vInstalled, vRunning, vStatus, history >>

\* ------------------------------------------------------------ main loop
\* A request of some refresh is in flight.
InFlight == \E t \in Tasks : tasks[t].tags = "sent" \/ tasks[t].ps = "sent"

\* Receiving for a main goroutine that performs the fetches itself: it is
\* back in the loop only when no request is in flight.
ReceivingWhenIdle == pc \in {"wait", "drain"} /\ ~InFlight

\* The main loop is in its select (or in consumeevents) and can take the
\* next termbox event or queued callback.
Receiving == pc \in {"wait", "drain"}

\* LoopAfter for a main that treats ErrQuit like any other loop error.
LoopAfterQuitIsFatal(ret) ==
    IF ret = "nil" THEN "drain" ELSE "fatalLoop"

\* MainLoop after a handler or callback returned ret.
LoopAfter(ret) ==
    IF ret = "nil" THEN "drain"
    ELSE IF ret = "ErrQuit" THEN "quit"
    ELSE "fatalLoop"

\* applyInstalled without the err1 check.
applyInstalledUnchecked(cur, r) == r.installed

\* The value the apply callback assigns to a.installed.
applyInstalled(cur, r) == IF IsErr(r.err1) THEN cur ELSE r.installed

\* The value the apply callback assigns to a.running.
applyRunning(cur, r) == IF IsErr(r.err2) THEN cur ELSE r.running

\* applyLog with "||" for "&&" in the guard of the "Refreshed" line.
applyLogEitherOk(st0, r) ==
    LET st1 == IF IsErr(r.err1)
               THEN logf(st0, "Installed: " \o r.err1.text) ELSE st0
        st2 == IF IsErr(r.err2)
               THEN logf(st1, "Running: " \o r.err2.text) ELSE st1
        upd == safeUpdate(safeUpdate(st2.upd, "drawInstalled"), "drawRunning")
        st3 == [st2 EXCEPT !.upd = upd]
    IN  IF ~IsErr(r.err1) \/ ~IsErr(r.err2)
        THEN logf(st3, "Refreshed") ELSE st3

\* applyLog with the two failure checks in the opposite order.
applyLogRunningFirst(st0, r) ==
    LET st1 == IF IsErr(r.err2)
               THEN logf(st0, "Running: " \o r.err2.text) ELSE st0
        st2 == IF IsErr(r.err1)
               THEN logf(st1, "Installed: " \o r.err1.text) ELSE st1
        upd == safeUpdate(safeUpdate(st2.upd, "drawInstalled"), "drawRunning")
        st3 == [st2 EXCEPT !.upd = upd]
    IN  IF ~IsErr(r.err1) /\ ~IsErr(r.err2)
        THEN logf(st3, "Refreshed") ELSE st3

\* The logf and draw calls of the apply callback, in program order.
applyLog(st0, r) ==
    LET st1 == IF IsErr(r.err1)
               THEN logf(st0, "Installed: " \o r.err1.text) ELSE st0
        st2 == IF IsErr(r.err2)
               THEN logf(st1, "Running: " \o r.err2.text) ELSE st1
        upd == safeUpdate(safeUpdate(st2.upd, "drawInstalled"), "drawRunning")
        st3 == [st2 EXCEPT !.upd = upd]
    IN  IF ~IsErr(r.err1) /\ ~IsErr(r.err2)
        THEN logf(st3, "Refreshed") ELSE st3

\* applyReturn handing a fetch error on to the main loop.
applyReturnsFetchError(r) ==
    IF IsErr(r.err1) THEN r.err1.text
    ELSE IF IsErr(r.err2) THEN r.err2.text
    ELSE "nil"

\* The error the apply callback returns to the main loop.
applyReturn(r) == "nil"

\* The result slots of a goroutine whose callback has run.
Applied(r) == [r EXCEPT !.apply = "done", !.installed = <<>>, !.err1 = NoErr,
                        !.running = <<>>, !.err2 = NoErr]

\* Apply with the results of a refresh dropped when the callback of a
\* refresh started later has already run.
ApplyDropsStale(t) ==
    /\ Receiving
    /\ t \in Tasks
    /\ tasks[t].apply = "queued"
    /\ LET r     == tasks[t]
           st    == applyLog(CtlState, r)
           stale == \E u \in Tasks : u > t /\ tasks[u].apply = "done"
       IN  /\ installed' = IF stale THEN installed
                           ELSE applyInstalled(installed, r)
           /\ running' = IF stale THEN running
                         ELSE applyRunning(running, r)
           /\ statusLines' = st.lines
           /\ history' = st.hist
           /\ updates' = st.upd
           /\ pc' = LoopAfter(applyReturn(r))
    /\ tasks' = [tasks EXCEPT ![t] = Applied(@)]
    /\ UNCHANGED << gui, vInstalled, vRunning, vStatus >>

\* The callback refreshAll hands to safeUpdate, run by the main loop.
Apply(t) ==
    /\ Receiving
    /\ t \in Tasks
    /\ tasks[t].apply = "queued"
    /\ LET r  == tasks[t]
           st == applyLog(CtlState, r)
       IN  /\ installed' = applyInstalled(installed, r)
           /\ running' = applyRunning(running, r)
           /\ statusLines' = st.lines
           /\ history' = st.hist
           /\ updates' = st.upd
           /\ pc' = LoopAfter(applyReturn(r))
    /\ tasks' = [tasks EXCEPT ![t] = Applied(@)]
    /\ UNCHANGED << gui, vInstalled, vRunning, vStatus >>

\* The callback of logf: rewrite the status view from a.statusLines.
UpdateStatus ==
    /\ Receiving
    /\ "status" \in updates
    /\ updates' = updates \ {"status"}
    /\ vStatus' = IF vStatus = NoView THEN vStatus ELSE << Join(statusLines) >>
    /\ pc' = LoopAfter("nil")
    /\ UNCHANGED << gui, installed, running, statusLines, tasks,
                    vInstalled, vRunning, history >>

\* The callback of drawInstalled.
UpdateInstalled ==
    /\ Receiving
    /\ "drawInstalled" \in updates
    /\ updates' = updates \ {"drawInstalled"}
    /\ vInstalled' = IF vInstalled = NoView THEN vInstalled
                     ELSE InstalledLines(installed)
    /\ pc' = LoopAfter("nil")
    /\ UNCHANGED << gui, installed, running, statusLines, tasks,
                    vRunning, vStatus, history >>

\* The callback of drawRunning.
UpdateRunning ==
    /\ Receiving
    /\ "drawRunning" \in updates
    /\ updates' = updates \ {"drawRunning"}
    /\ vRunning' = IF vRunning = NoView THEN vRunning
                   ELSE RunningLines(running)
    /\ pc' = LoopAfter("nil")
    /\ UNCHANGED << gui, installed, running, statusLines, tasks,
                    vInstalled, vStatus, history >>

\* bindKeys: the keys bound to each handler.
QuitKeys == {"Ctrl+C", "q"}
RefreshKeys == {"r", "Ctrl+R"}

\* onQuit: the handler returns gocui.ErrQuit.
onQuit(key) ==
    /\ Receiving
    /\ key \in QuitKeys
    /\ pc' = LoopAfter("ErrQuit")
    /\ UNCHANGED << gui, installed, running, statusLines, updates, tasks,
                    vInstalled, vRunning, vStatus, history >>

\* onRefresh: the handler calls refreshAll and returns nil.
onRefresh(key) ==
    /\ Receiving
    /\ key \in RefreshKeys
    /\ refreshAll
    /\ pc' = LoopAfter("nil")
    /\ UNCHANGED << gui, installed, running, vInstalled, vRunning, vStatus >>

\* Terminal sizes g.Size() reports, as << maxX, maxY >>.
Sizes == { <<80, 24>>, <<80, 4>>, <<3, 24>> }

\* gocui's SetView rejects a rectangle with x0 >= x1 or y0 >= y1.
SetViewOK(x0, y0, x1, y1) == x0 < x1 /\ y0 < y1

\* The three rectangles layout passes to SetView.
Rects(size) ==
    LET maxX  == size[1]
        maxY  == size[2]
        bodyH == IF maxY - statusH < 3 THEN maxY ELSE maxY - statusH
        halfX == maxX \div 2
    IN  [installed |-> << 0, 0, halfX - 1, bodyH - 1 >>,
         running   |-> << halfX, 0, maxX - 1, bodyH - 1 >>,
         status    |-> << 0, bodyH, maxX - 1, maxY - 1 >>]

RectOK(r) == SetViewOK(r[1], r[2], r[3], r[4])

\* layout returns nil for this size.
layoutOK(size) ==
    LET r == Rects(size)
    IN  RectOK(r.installed) /\ RectOK(r.running) /\ RectOK(r.status)

\* layout, called by every flush of the main loop: SetView for the three
\* views in turn (a new status view gets "Ready"), returning at the first
\* error; then drawInstalled and drawRunning.
layout(size) ==
    LET r   == Rects(size)
        okI == RectOK(r.installed)
        okR == okI /\ RectOK(r.running)
        okS == okR /\ RectOK(r.status)
    IN  /\ vInstalled' = IF okI /\ vInstalled = NoView THEN <<>> ELSE vInstalled
        /\ vRunning' = IF okR /\ vRunning = NoView THEN <<>> ELSE vRunning
        /\ vStatus' = IF okS /\ vStatus = NoView THEN << "Ready" >> ELSE vStatus
        /\ updates' = IF okS
                      THEN safeUpdate(safeUpdate(updates, "drawInstalled"),
                                      "drawRunning")
                      ELSE updates

\* MainLoop finds no further event (or has just been entered) and flushes:
\* layout runs and, unless it failed, the view buffers are painted.
Flush(size) ==
    /\ pc \in {"enter", "drain"}
    /\ layout(size)
    /\ pc' = IF layoutOK(size) THEN "wait" ELSE "fatalLoop"
    /\ UNCHANGED << gui, installed, running, statusLines, tasks, history >>

\* Answers of a backend that responds at once, with its model list or
\* with a 500.
LoopResponses ==
    {r \in Responses : \/ (r.class = "status" /\ r.code = 500)
                        \/ (r.class = "models" /\ r.models = SomeModels)}

\* The dashboard with a backend that answers every request.
Next ==
    \/ \E ok \in BOOLEAN : NewGui(ok)
    \/ \E ok \in BOOLEAN : bindKeys(ok)
    \/ StartupRefresh
    \/ \E t \in Tasks, resp \in LoopResponses : FetchTags(t, resp)
    \/ \E t \in Tasks, resp \in LoopResponses : FetchPs(t, resp)
    \/ \E t \in Tasks : Apply(t)
    \/ UpdateStatus
    \/ UpdateInstalled
    \/ UpdateRunning
    \/ \E key \in QuitKeys : onQuit(key)
    \/ \E key \in RefreshKeys : onRefresh(key)
    \/ \E size \in Sizes : Flush(size)

Spec == Init /\ [][Next]_vars

\* The startup refresh alone (no refresh key is pressed), against a backend
\* that may answer anything or nothing.
NextOne ==
    \/ \E ok \in BOOLEAN : NewGui(ok)
    \/ \E ok \in BOOLEAN : bindKeys(ok)
    \/ StartupRefresh
    \/ \E t \in Tasks : Tick(t)
    \/ \E t \in Tasks, resp \in Responses : FetchTags(t, resp)
    \/ \E t \in Tasks, resp \in Responses : FetchPs(t, resp)
    \/ \E t \in Tasks : Apply(t)
    \/ UpdateStatus
    \/ UpdateInstalled
    \/ UpdateRunning
    \/ \E key \in QuitKeys : onQuit(key)
    \/ \E size \in Sizes : Flush(size)

SpecOne == Init /\ [][NextOne]_vars

\* The scheduling the Go runtime and gocui give SpecOne: time passes, a
\* request whose context is done returns, the main loop flushes and takes
\* every callback handed to it.  The backend is not obliged to answer.
Fairness ==
    \A t \in 1 .. MaxRefresh :
        /\ WF_vars(Tick(t))
        /\ WF_vars(FetchTags(t, Silent))
        /\ WF_vars(FetchPs(t, Silent))
        /\ WF_vars(Apply(t))
        /\ WF_vars(\E size \in Sizes : Flush(size))

FairSpec == SpecOne /\ Fairness

\* Answers of a backend that is up and whose model list changes between
\* requests.
RaceResponses == {r \in Responses : r.class = "models"}

\* The dashboard with such a backend.
NextRace ==
    \/ \E ok \in BOOLEAN : NewGui(ok)
    \/ \E ok \in BOOLEAN : bindKeys(ok)
    \/ StartupRefresh
    \/ \E t \in Tasks, resp \in RaceResponses : FetchTags(t, resp)
    \/ \E t \in Tasks, resp \in RaceResponses : FetchPs(t, resp)
    \/ \E t \in Tasks : Apply(t)
    \/ UpdateStatus
    \/ UpdateInstalled
    \/ UpdateRunning
    \/ \E key \in QuitKeys : onQuit(key)
    \/ \E key \in RefreshKeys : onRefresh(key)
    \/ \E size \in Sizes : Flush(size)

SpecRace == Init /\ [][NextRace]_vars

\* --------------------------------------------- HumanSize on its own
\* The byte counts HumanSize is called with: every value within SizeRadius
\* of zero and of each threshold, values whose second decimal is a tie, and
\* the largest 32-bit value.
SizeRadius == 6

SizeInputs ==
    UNION {(c - SizeRadius) .. (c + SizeRadius) : c \in {0, kib, mib, gib}}
        \cup {1152, 1408, 1664, 10245, 537395200, 2147483647}

\* A backend list of one model of any of these sizes has been assigned and
\* the installed view exists, with nothing written to it yet.
InitSize ==
    /\ pc = "wait"
    /\ gui = TRUE
    /\ \E n \in SizeInputs : installed = << Model("phi3:mini", n) >>
    /\ running = <<>>
    /\ statusLines = <<>>
    /\ history = <<>>
    /\ updates = {}
    /\ tasks = <<>>
    /\ vInstalled = <<>>
    /\ vRunning = <<>>
    /\ vStatus = <<>>

\* ollama.HumanSize(m.Size) for that model, whatever the sign of the size;
\* the string returned is left in the buffer of the installed view.
FormatSize ==
    /\ vInstalled = <<>>
    /\ vInstalled' = << HumanSize(installed[1].Size) >>
    /\ UNCHANGED << pc, gui, installed, running, statusLines, updates,
                    tasks, vRunning, vStatus, history >>

NextSize == FormatSize

SpecSize == InitSize /\ [][NextSize]_vars

TypeOK ==
    /\ pc \in {"init", "bind", "start", "enter", "wait", "drain", "quit",
               "fatalGui", "fatalKeys", "fatalLoop"}
    /\ Len(statusLines) <= LogCap

\* ---------------------------------------------------------------- claims
TagsDone(t) == tasks[t].tags = "done"

\* The apply callback of refresh t runs in this step.
Applies(t) == tasks[t].apply = "queued" /\ tasks'[t].apply = "done"

Has(seq, x) == \E i \in 1 .. Len(seq) : seq[i] = x

\* C1: in every apply step each list is assigned exactly when its own fetch
\* succeeded: a list whose fetch failed keeps the value it had before the
\* step, a list whose fetch succeeded takes the fetched value, whatever the
\* outcome of the other fetch.
C1_ApplyAssignsPerFetch ==
    [][\A t \in Tasks : Applies(t) =>
          /\ IsErr(tasks[t].err1) => installed' = installed
          /\ ~IsErr(tasks[t].err1) => installed' = tasks[t].installed
          /\ IsErr(tasks[t].err2) => running' = running
          /\ ~IsErr(tasks[t].err2) => running' = tasks[t].running]_vars

\* An apply whose tags fetch failed and whose ps fetch succeeded has just
\* run on a non-empty installed list: the list was kept, running replaced.
C1_Witness ==
    /\ history # <<>>
    /\ history[Len(history)] = "Installed: tags: 500 Internal Server Error"
    /\ installed # <<>>
    /\ running # <<>>

\* The lines an apply is to append for the fetch results r.
ResultLines(r) ==
    IF ~IsErr(r.err1) /\ ~IsErr(r.err2) THEN << "Refreshed" >>
    ELSE (IF IsErr(r.err1) THEN << "Installed: " \o r.err1.text >> ELSE <<>>)
         \o (IF IsErr(r.err2) THEN << "Running: " \o r.err2.text >> ELSE <<>>)

\* C2: an apply step appends "Refreshed" if and only if both fetches
\* succeeded; otherwise it appends one "Installed: " line if the tags fetch
\* failed and one "Running: " line if the ps fetch failed, and nothing else.
C2_ApplyLogLines ==
    [][\A t \in Tasks : Applies(t) =>
          history' = history \o ResultLines(tasks[t])]_vars

\* One refresh has logged "Refreshed" and another both failure lines.
C2_Witness ==
    /\ Has(history, "Refreshed")
    /\ Has(history, "Installed: tags: 500 Internal Server Error")
    /\ Has(history, "Running: ps: 500 Internal Server Error")

\* C3: the status log holds at most 5 lines, and they are the last
\* min(k,5) of the k lines appended so far, in append order.
C3_LogIsLastFive ==
    /\ Len(statusLines) <= 5
    /\ statusLines = LastN(history, 5)

\* More than 5 lines have been appended, so the oldest has been evicted.
C3_Witness == Len(history) > 5 /\ Len(statusLines) = 5

\* A step of a background goroutine: one of its requests returns, or time
\* passes for its context.
BackgroundStep ==
    /\ Len(tasks') = Len(tasks)
    /\ \E t \in Tasks : \/ tasks'[t].tags # tasks[t].tags
                        \/ tasks'[t].ps # tasks[t].ps
                        \/ tasks'[t].elapsed # tasks[t].elapsed

\* C4: every step that writes a.installed, a.running or a.statusLines is a
\* step of the main goroutine (startup before the loop, or a key handler or
\* queued callback run by the loop); a step of a background goroutine
\* leaves all three unchanged.
C4_OnlyMainGoroutineWrites ==
    [][/\ BackgroundStep => UNCHANGED << installed, running, statusLines >>
       /\ ~ UNCHANGED << installed, running, statusLines >> =>
             /\ ~BackgroundStep
             /\ pc \in {"start", "wait", "drain"}]_vars

\* The second refresh has been applied while the first still has a request
\* in flight: overlapping refreshes, and a write in between.
C4_Witness ==
    /\ Len(tasks) >= 2
    /\ tasks[2].apply = "done"
    /\ tasks[1].ps = "sent"
    /\ installed # <<>>

\* The main goroutine runs the event loop.
LoopRunning == pc \in {"wait", "drain"}

\* C6: a refreshAll call leaves the main goroutine on its way back to the
\* loop with the /api/tags request of the new goroutine still unanswered;
\* and whenever the loop runs with requests in flight it can take a quit
\* key, a refresh key (while the refresh budget lasts) and every queued
\* callback.
C6_LoopNeverWaitsForFetch ==
    /\ [][Len(tasks') > Len(tasks) =>
            /\ pc' \in {"enter", "drain"}
            /\ tasks'[Len(tasks')].tags = "sent"
            /\ tasks'[Len(tasks')].apply = "none"]_vars
    /\ [](LoopRunning /\ InFlight =>
            /\ ENABLED onQuit("q")
            /\ ENABLED onQuit("Ctrl+C")
            /\ Len(tasks) < MaxRefresh =>
                  ENABLED onRefresh("r") /\ ENABLED onRefresh("Ctrl+R")
            /\ "status" \in updates => ENABLED UpdateStatus
            /\ "drawInstalled" \in updates => ENABLED UpdateInstalled
            /\ "drawRunning" \in updates => ENABLED UpdateRunning
            /\ \A t \in Tasks : tasks[t].apply = "queued" => ENABLED Apply(t))

\* Two refreshes have requests in flight and a callback of the first
\* refresh's logf has already been run by the loop.
C6_Witness ==
    /\ LoopRunning
    /\ Len(tasks) >= 2
    /\ tasks[1].tags = "sent"
    /\ tasks[2].tags = "sent"
    /\ vStatus = << "Refreshing..." >>

\* The view buffer has been written by its draw callback.
Drawn(v) == v # NoView /\ v # <<>>

\* The main loop paints the view buffers in this step.
Repaints == pc \in {"enter", "drain"} /\ pc' = "wait"

\* C5: at every repaint the Installed pane and the Running pane are
\* projections of one and the same state value.  In a run with a single
\* refresh the state takes two values, the initial one and the one after
\* the apply, so the panes (once drawn) show both lists of the current
\* state or both lists of the initial state.
C5_PanesShowOneState ==
    [][Repaints /\ Drawn(vInstalled') /\ Drawn(vRunning') =>
          \/ /\ vInstalled' = InstalledLines(installed)
             /\ vRunning' = RunningLines(running)
          \/ /\ vInstalled' = InstalledLines(<<>>)
             /\ vRunning' = RunningLines(<<>>)]_vars

\* The refresh t has reached its apply step.
Reached(t) == t \in Tasks /\ tasks[t].apply = "done"

Stopped == pc \in {"quit", "fatalLoop"}

DeadlineText(path) ==
    "Get \"" \o baseURL \o path \o "\": context deadline exceeded"

\* C7: every started refresh eventually reaches its apply step unless the
\* main loop ends first, whatever the backend does; the clock of a refresh
\* never passes 5 seconds over both requests together, and a request that
\* returns at the deadline returns an error and no list.
C7_RefreshReachesApply ==
    /\ \A t \in 1 .. MaxRefresh : (t \in Tasks) ~> (Reached(t) \/ Stopped)
    /\ [](\A t \in Tasks : tasks[t].elapsed <= 5)
    /\ [][\A t \in Tasks :
            /\ (tasks[t].elapsed = 5 /\ tasks[t].tags = "sent"
                                    /\ tasks'[t].tags = "done")
                  => /\ tasks'[t].err1.text = DeadlineText("/api/tags")
                     /\ tasks'[t].installed = <<>>
            /\ (tasks[t].elapsed = 5 /\ tasks[t].ps = "sent"
                                    /\ tasks'[t].ps = "done")
                  => /\ tasks'[t].err2.text = DeadlineText("/api/ps")
                     /\ tasks'[t].running = <<>>]_vars

\* The apply of a refresh whose two requests both ran into the deadline has
\* logged both failures and kept the (empty) lists.
C7_Witness ==
    /\ Reached(1)
    /\ history = << "Refreshing...",
                    "Installed: " \o DeadlineText("/api/tags"),
                    "Running: " \o DeadlineText("/api/ps") >>
    /\ installed = <<>>
    /\ running = <<>>

\* C8: an apply step never ends the loop, whatever the two fetches
\* produced, and logs a line for every failed fetch; the main goroutine
\* reaches "quit" only from a quit key taken by the running loop, and a
\* fatal exit only from NewGui, bindKeys or a flush of the loop whose
\* layout failed.
C8_FetchOutcomeNeverEndsLoop ==
    [][/\ \A t \in Tasks : Applies(t) =>
             /\ pc' = "drain"
             /\ IsErr(tasks[t].err1) =>
                   Has(history', "Installed: " \o tasks[t].err1.text)
             /\ IsErr(tasks[t].err2) =>
                   Has(history', "Running: " \o tasks[t].err2.text)
       /\ (pc' = "quit" /\ pc # "quit") =>
             pc \in {"wait", "drain"} /\ UNCHANGED tasks
       /\ (pc' = "fatalGui" /\ pc # "fatalGui") => pc = "init"
       /\ (pc' = "fatalKeys" /\ pc # "fatalKeys") => pc = "bind"
       /\ (pc' = "fatalLoop" /\ pc # "fatalLoop") =>
             /\ pc \in {"enter", "drain"}
             /\ UNCHANGED << tasks, installed, running, statusLines >>]_vars

\* The loop is running after an apply that met a refused connection on
\* /api/tags and a malformed body on /api/ps.
C8_Witness ==
    /\ LoopRunning
    /\ Reached(1)
    /\ Has(history, "Installed: Get \"" \o baseURL
                       \o "/api/tags\": connection refused")
    /\ Has(history, "Running: invalid character 'x' looking for beginning of value")

\* The result a list call is to give for the answer resp.
Classified(endpoint, expired, resp, models, err) ==
    IF expired \/ resp.class \in {"silent", "refused"}
    THEN err.kind = "TransportError" /\ models = <<>>
    ELSE IF resp.code # 200
    THEN /\ err.kind = "BackendError"
         /\ err.text = endpoint \o ": " \o resp.status
         /\ models = <<>>
    ELSE IF resp.class = "garbage"
    THEN err.kind = "DecodeError" /\ models = <<>>
    ELSE err = NoErr /\ models = resp.models

\* C9: each list call issues one request and returns: the decoded models
\* and no error for a 200 with a decodable body (the empty list for a body
\* without models); a BackendError carrying the status text for any other
\* status; a TransportError for a refused connection or an expired
\* deadline; a DecodeError for a malformed body; and no list with any error.
C9_FetchClassification ==
    /\ [][\A t \in Tasks, resp \in Responses :
            /\ FetchTags(t, resp) =>
                  Classified("tags", Expired(t), resp,
                             tasks'[t].installed, tasks'[t].err1)
            /\ FetchPs(t, resp) =>
                  Classified("ps", Expired(t), resp,
                             tasks'[t].running, tasks'[t].err2)]_vars
    /\ [](\A t \in Tasks :
            /\ tasks[t].sent = (IF TagsDone(t) THEN 2 ELSE 1)
            /\ IsErr(tasks[t].err1) => tasks[t].installed = <<>>
            /\ IsErr(tasks[t].err2) => tasks[t].running = <<>>)

\* A refresh whose /api/tags answered 404 and whose /api/ps answered 200
\* with a body without models.
C9_Witness ==
    /\ Len(tasks) >= 1
    /\ tasks[1].apply = "queued"
    /\ tasks[1].err1 = [kind |-> "BackendError", text |-> "tags: 404 Not Found"]
    /\ tasks[1].err2 = NoErr
    /\ tasks[1].running = <<>>

RECURSIVE Count(_, _)
Count(seq, x) ==
    IF seq = <<>> THEN 0
    ELSE (IF seq[1] = x THEN 1 ELSE 0) + Count(Tail(seq), x)

\* C11: wherever the loop runs, with requests in flight or callbacks queued
\* or not, both quit keys are accepted and end the loop with the clean exit
\* ("quit", exit code 0), never a fatal one; both refresh keys are accepted
\* (while the refresh budget lasts) and call refreshAll, which logs
\* "Refreshing..." and starts one goroutine; a step of one key of a pair is
\* also a step of the other.
C11_KeysQuitAndRefresh ==
    /\ [](LoopRunning =>
            /\ ENABLED onQuit("Ctrl+C") /\ ENABLED onQuit("q")
            /\ Len(tasks) < MaxRefresh =>
                  ENABLED onRefresh("r") /\ ENABLED onRefresh("Ctrl+R"))
    /\ [][/\ (onQuit("Ctrl+C") \/ onQuit("q")) =>
               /\ pc' = "quit"
               /\ onQuit("Ctrl+C") /\ onQuit("q")
          /\ (onRefresh("r") \/ onRefresh("Ctrl+R")) =>
               /\ pc' = "drain"
               /\ history' = Append(history, "Refreshing...")
               /\ tasks' = Append(tasks, NewTask)
               /\ onRefresh("r") /\ onRefresh("Ctrl+R")]_vars
    /\ [][pc = "quit" => pc' = "quit"]_vars

\* The loop has ended cleanly on a quit key while the refresh started by a
\* refresh key still had a request in flight and callbacks were queued.
C11_Witness ==
    /\ pc = "quit"
    /\ Len(tasks) >= 2
    /\ tasks[2].tags = "sent"
    /\ updates # {}

\* The decimal text q.hh is n / unit rounded to two decimals: it is within
\* half a hundredth of the quotient.  The remainder is compared in 1024ths
\* of the unit so that no product leaves 32 bits.
Rounded(n, unit, q, h) ==
    LET k  == unit \div 1024
        r  == (n % unit) - (q - (n \div unit)) * unit
        r1 == r \div k
        up == IF r % k = 0 THEN 0 ELSE 100
    IN  /\ 100 * r1 <= 1024 * h + 512
        /\ 100 * r1 + up >= 1024 * h - 512

\* out is n / unit with two decimals followed by the suffix.
Scaled(n, unit, suffix, out) ==
    \E q \in {n \div unit, (n \div unit) + 1}, h \in 0 .. 99 :
        /\ out = ToString(q) \o "." \o TwoDigits(h) \o suffix
        /\ Rounded(n, unit, q, h)

\* C12: HumanSize returns a string for every byte count: "-" for n <= 0,
\* "<n> B" for 1..1023, and n / 2^10 KiB, n / 2^20 MiB or n / 2^30 GiB with
\* two decimals from each threshold on; 1024, 1048576 and 1073741824 give
\* "1.00 KiB", "1.00 MiB" and "1.00 GiB".
C12_HumanSizeForms ==
    vInstalled # <<>> =>
        LET n   == installed[1].Size
            out == vInstalled[1]
        IN  /\ Len(vInstalled) = 1
            /\ n <= 0 => out = "-"
            /\ (n >= 1 /\ n < kib) => out = ToString(n) \o " B"
            /\ (n >= kib /\ n < mib) => Scaled(n, kib, " KiB", out)
            /\ (n >= mib /\ n < gib) => Scaled(n, mib, " MiB", out)
            /\ n >= gib => Scaled(n, gib, " GiB", out)
            /\ n = 1023 => out = "1023 B"
            /\ n = kib => out = "1.00 KiB"
            /\ n = mib => out = "1.00 MiB"
            /\ n = gib => out = "1.00 GiB"

\* HumanSize has been applied to exactly 2^30 bytes.
C12_Witness ==
    /\ installed = << Model("phi3:mini", gib) >>
    /\ vInstalled = << "1.00 GiB" >>

\* The drawInstalled / drawRunning callback writes its view in this step.
DrawsInstalled ==
    /\ "drawInstalled" \in updates /\ "drawInstalled" \notin updates'
    /\ vInstalled # NoView
DrawsRunning ==
    /\ "drawRunning" \in updates /\ "drawRunning" \notin updates'
    /\ vRunning # NoView

\* C13: what a draw callback writes is a function of the list alone: the one
\* placeholder line for an empty list, otherwise one line per model in list
\* order; an installed line is the padded name and the size text when the
\* size is positive and the bare name otherwise; a running line is the name.
C13_PanesAreProjections ==
    [][/\ DrawsInstalled =>
            IF installed = <<>>
            THEN vInstalled' = << "(no models installed)" >>
            ELSE /\ Len(vInstalled') = Len(installed)
                 /\ \A i \in 1 .. Len(installed) :
                       /\ installed[i].Size > 0 =>
                             vInstalled'[i] = PadName(installed[i].Name)
                                 \o "  " \o HumanSize(installed[i].Size)
                       /\ installed[i].Size <= 0 =>
                             vInstalled'[i] = installed[i].Name
       /\ DrawsRunning =>
            IF running = <<>>
            THEN vRunning' = << "(nothing running)" >>
            ELSE /\ Len(vRunning') = Len(running)
                 /\ \A i \in 1 .. Len(running) :
                       vRunning'[i] = running[i].Name]_vars

\* Both panes show the two-model list: the model of size 0 by its name only,
\* the other with its size column.
C13_Witness ==
    /\ Len(installed) = 2 /\ Len(running) = 2
    /\ Len(vInstalled) = 2
    /\ vInstalled[1] = "llama2:7b"
    /\ vInstalled[2] = PadName("phi3:mini") \o "  1.20 GiB"
    /\ vRunning = << "llama2:7b", "phi3:mini" >>

\* The rectangle r is valid and lies inside a terminal of this size.
Inside(r, size) ==
    /\ 0 <= r[1] /\ r[1] < r[3] /\ r[3] <= size[1] - 1
    /\ 0 <= r[2] /\ r[2] < r[4] /\ r[4] <= size[2] - 1

\* C14: for every terminal size a flush finds, layout passes three valid
\* rectangles inside the terminal to SetView, the panes split at maxX / 2,
\* the status strip in the rows below the body, and layout returns no
\* error: the loop goes on.
C14_LayoutFitsEverySize ==
    [][\A size \in Sizes :
          Flush(size) =>
              LET r == Rects(size)
              IN  /\ Inside(r.installed, size)
                  /\ Inside(r.running, size)
                  /\ Inside(r.status, size)
                  /\ r.installed[3] = (size[1] \div 2) - 1
                  /\ r.running[1] = size[1] \div 2
                  /\ r.status[4] = size[2] - 1
                  /\ pc' = "wait"]_vars

\* C15: a refresh changes nothing but its own result slots between its
\* "Refreshing..." line and its apply: the lists change and result lines
\* are appended only in an apply step, an apply step happens only when both
\* calls of its refresh have returned, and every other change of the log is
\* the one "Refreshing..." line of a refresh being started.
C15_NoPartialTransition ==
    [][/\ \A t \in Tasks :
             Applies(t) => tasks[t].tags = "done" /\ tasks[t].ps = "done"
       /\ (installed' # installed \/ running' # running) =>
             \E t \in Tasks : Applies(t)
       /\ history' # history =>
             \/ \E t \in Tasks : Applies(t)
             \/ /\ history' = Append(history, "Refreshing...")
                /\ tasks' = Append(tasks, NewTask)
       /\ \A t \in Tasks :
             (tasks[t].apply = "none" /\ tasks'[t] # tasks[t]) =>
                 UNCHANGED << pc, installed, running, statusLines, history,
                              updates, vInstalled, vRunning, vStatus >>]_vars

\* The first call of a refresh has returned a list, the second is in flight,
\* and the state still holds the empty list and the one "Refreshing..." line.
C15_Witness ==
    /\ Len(tasks) = 1
    /\ tasks[1].tags = "done" /\ tasks[1].installed # <<>>
    /\ tasks[1].ps = "sent"
    /\ installed = <<>>
    /\ history = << "Refreshing..." >>

\* C16: the apply and the redraw are one step: when an apply callback has
\* run, both panes hold the projections of the lists it assigned, so every
\* later flush paints panes that show the lists of the state.
C16_ApplyRedrawsAtOnce ==
    [][/\ \A t \in Tasks :
             (Applies(t) /\ vInstalled # NoView /\ vRunning # NoView) =>
                 /\ vInstalled' = InstalledLines(installed')
                 /\ vRunning' = RunningLines(running')
       /\ (/\ Repaints /\ Drawn(vInstalled') /\ Drawn(vRunning')
           /\ \E t \in Tasks : tasks[t].apply = "done") =>
             /\ vInstalled' = InstalledLines(installed')
             /\ vRunning' = RunningLines(running')]_vars

\* C17: a refresh asked for while others are under way is neither merged
\* with them nor refused: the refresh keys are enabled with requests in
\* flight (while the refresh budget lasts), every refreshAll appends one
\* "Refreshing..." line and starts one goroutine with a fresh deadline and
\* leaves the slots of the earlier ones as they are, so there are as many
\* goroutines as "Refreshing..." lines; a step runs the callback of one
\* refresh only, and a refresh whose callback has run never runs it again.
C17_RefreshesDoNotMerge ==
    /\ [](Count(history, "Refreshing...") = Len(tasks))
    /\ []((LoopRunning /\ InFlight /\ Len(tasks) < MaxRefresh) =>
             \A key \in RefreshKeys : ENABLED onRefresh(key))
    /\ [][/\ Len(tasks') # Len(tasks) =>
               /\ tasks' = Append(tasks, NewTask)
               /\ history' = Append(history, "Refreshing...")
               /\ tasks'[Len(tasks')].elapsed = 0
          /\ history' # history /\ history'[Len(history')] = "Refreshing..."
               => Len(tasks') = Len(tasks) + 1
          /\ \A t, u \in Tasks : Applies(t) /\ Applies(u) => t = u
          /\ \A t \in Tasks :
               tasks[t].apply = "done" => tasks'[t] = tasks[t]]_vars

\* Two refreshes are under way at once, each with its own request in flight
\* and its own "Refreshing..." line.
C17_Witness ==
    /\ Len(tasks) = 2
    /\ tasks[1].ps = "sent" /\ tasks[2].tags = "sent"
    /\ history = << "Refreshing...", "Refreshing..." >>

\* C18: callbacks run in the order their fetches complete, whatever the
\* order the refreshes started in, and the last one to run decides the
\* lists: a queued callback can run while an earlier refresh is still
\* fetching or waiting, and when the callback of a refresh runs after that
\* of a refresh started later, its successful (older) results replace the
\* newer ones.
C18_LastApplyWins ==
    /\ [](LoopRunning =>
            \A t \in Tasks : tasks[t].apply = "queued" => ENABLED Apply(t))
    /\ [][\A t \in Tasks :
             (Applies(t) /\ \E u \in Tasks : u > t /\ tasks[u].apply = "done")
                 => /\ ~IsErr(tasks[t].err1) => installed' = tasks[t].installed
                    /\ ~IsErr(tasks[t].err2) => running' = tasks[t].running]_vars

\* A started before B and B's callback has run first: the lists hold B's
\* models, and A's callback is queued with A's own, different results (the
\* empty lists), which the step that runs it assigns.
C18_Witness ==
    /\ Len(tasks) = 2
    /\ tasks[2].apply = "done"
    /\ installed = SomeModels /\ running = SomeModels
    /\ tasks[1].apply = "queued"
    /\ ~IsErr(tasks[1].err1) /\ tasks[1].installed = <<>>
    /\ ~IsErr(tasks[1].err2) /\ tasks[1].running = <<>>
    /\ LoopRunning

\* C19: the lines of one refresh come in order: when its callback runs, its
\* "Refreshing..." line (the t-th of the log) is already there; the callback
\* appends one or two lines at the end of the log in one step, so nothing
\* comes between them; with two lines the "Installed: " line is first and
\* the "Running: " line second; "Refreshed" is never appended along with
\* another line.
C19_LogOrderPerRefresh ==
    [][\A t \in Tasks : Applies(t) =>
          LET k == Len(history)
              n == Len(history') - k
              r == tasks[t]
          IN  /\ n \in {1, 2}
              /\ SubSeq(history', 1, k) = history
              /\ Count(history, "Refreshing...") >= t
              /\ \A i \in 1 .. n :
                    history'[k + i] \in
                        { "Installed: " \o r.err1.text,
                          "Running: " \o r.err2.text, "Refreshed" }
              /\ n = 2 =>
                    /\ history'[k + 1] = "Installed: " \o r.err1.text
                    /\ history'[k + 2] = "Running: " \o r.err2.text
              /\ Has(SubSeq(history', k + 1, k + n), "Refreshed") => n = 1]_vars

\* Two refreshes were started one after the other, and the callback of one
\* of them has appended both failure lines, next to each other.
C19_Witness ==
    /\ Len(history) >= 4
    /\ history[1] = "Refreshing..." /\ history[2] = "Refreshing..."
    /\ \E i \in 3 .. Len(history) - 1 :
          /\ history[i] = "Installed: tags: 500 Internal Server Error"
          /\ history[i + 1] = "Running: ps: 500 Internal Server Error"

\* C20: once the refresh has been applied and every callback handed to
\* Gui.Update has run, no step of the loop hands over a new one: the queue
\* of pending callbacks, once empty with nothing in flight, stays empty.
C20_UpdateQueueSettles ==
    [][(/\ updates = {}
        /\ Tasks # {}
        /\ \A t \in Tasks : tasks[t].apply = "done") => updates' = {}]_vars

====
